---------------------------- MODULE Spec2Model ----------------------------
(***************************************************************************)
(* A model of webassets/cache.py: the two key identities (make_hashable,   *)
(* make_md5), the value codec (maybe_pickle, safe_unpickle), MemoryCache   *)
(* and FilesystemCache.                                                    *)
(*                                                                         *)
(* Python objects are records of one shape, so that any two of them can be *)
(* compared:                                                               *)
(*   t      the Python type: "int" "str" "float" "none" "bool" "tuple"     *)
(*          "list" "dict" "hunk" "filter" "frozenset"                      *)
(*   n      the number of an int, the hash of a filter, 2*x of a float x   *)
(*   s      the characters of a str, the data() of a hunk                  *)
(*   items  the elements of a tuple or list in order; the (key, value)     *)
(*          2-tuples of a dict in insertion order                          *)
(*   fs     the elements of a frozenset                                    *)
(* Byte strings are sequences of one-character strings.                    *)
(***************************************************************************)
EXTENDS Integers, Sequences, FiniteSets, TLC

VARIABLES
  memory,      \* the MemoryCache instance: [capacity, keys, cache]
  memRet,      \* the last MemoryCache call: [op, key, value, ret, raised]
  writeOrder,  \* history: keys ever set, ordered by their most recent set
  keyIn,       \* two composite keys K1, K2 handed to the key functions
  keyOut,      \* [hashable, md5]: make_hashable and make_md5 of K1 and of K2
  keyPc,       \* "in", "hashed" (make_hashable applied), "done" (make_md5 too)
  codecIn,     \* the value handed to maybe_pickle
  codecPayload, \* the payload: maybe_pickle's result, possibly truncated since
  codecOut,    \* safe_unpickle's result: [ret, raised]
  codecPc,     \* "in", "encoded", "damaged", "done", "done_damaged"
  disk,        \* the files of the file system: file name -> bytes
  fsRet,       \* the last FilesystemCache call: [op, key, value, python, ret,
               \* raised]; op is "none" after an event from outside
  lastSet,     \* history: per key, the payload of its most recent set, None
               \* if never set or the file was deleted since, Tampered if the
               \* file was damaged since
  wr,          \* the thread inside FilesystemCache.set: [pc, key, data,
               \* filename, pos]; pos counts the bytes that reached the file
  rd,          \* the thread inside FilesystemCache.get: [pc, key, python,
               \* filename, result, overlap]; overlap is history: a set was in
               \* progress at some moment of this get
  committed,   \* history: file name -> payload of the last set that returned
  heap,        \* the cache objects made so far; the id of an object is its index
  dirs,        \* the directories that exist
  facRet       \* the last call of get_cache, of == or of a constructor:
               \* [op, option, other, ret, raised]

memVars == <<memory, memRet, writeOrder>>
keyVars == <<keyIn, keyOut, keyPc>>
codecVars == <<codecIn, codecPayload, codecOut, codecPc>>
fsVars == <<disk, fsRet, lastSet>>
raceVars == <<wr, rd, committed>>
facVars == <<heap, dirs, facRet>>
vars == <<memory, memRet, writeOrder, keyIn, keyOut, keyPc,
          codecIn, codecPayload, codecOut, codecPc, disk, fsRet, lastSet,
          wr, rd, committed, heap, dirs, facRet>>

(***************************************************************************)
(* Python values                                                           *)
(***************************************************************************)
PyObj(t, n, s, items, fs) == [t |-> t, n |-> n, s |-> s, items |-> items, fs |-> fs]
PyNone == PyObj("none", 0, <<>>, <<>>, {})
PyInt(n) == PyObj("int", n, <<>>, <<>>, {})
PyStr(s) == PyObj("str", 0, s, <<>>, {})
\* the float h/2; only odd h is used, so that no float equals an int
PyFloat(h) == PyObj("float", h, <<>>, <<>>, {})
PyTuple(items) == PyObj("tuple", 0, <<>>, items, {})
PyList(items) == PyObj("list", 0, <<>>, items, {})
PyDict(entries) == PyObj("dict", 0, <<>>, entries, {})
PyFrozenset(elems) == PyObj("frozenset", 0, <<>>, <<>>, elems)
PyHunk(data) == PyObj("hunk", 0, data, <<>>, {})
PyFilter(h) == PyObj("filter", h, <<>>, <<>>, {})

Range(seq) == {seq[i] : i \in 1..Len(seq)}
Max(a, b) == IF a >= b THEN a ELSE b
Min(a, b) == IF a <= b THEN a ELSE b

\* seq[a:b] of Python for 0 <= a, 0 <= b: both ends are clamped to the length
Slice(seq, a, b) == SubSeq(seq, Min(a, Len(seq)) + 1, Min(b, Len(seq)))

(***************************************************************************)
(* make_hashable: freezedicts of webassets.filter.  Sequences keep their   *)
(* type and order, a mapping becomes the frozenset of its (key, value)     *)
(* pairs, everything else passes through.                                  *)
(***************************************************************************)
RECURSIVE freezedicts(_)
freezedicts(obj) ==
  IF obj.t \in {"tuple", "list"}
    THEN PyObj(obj.t, 0, <<>>, [i \in 1..Len(obj.items) |-> freezedicts(obj.items[i])], {})
  ELSE IF obj.t = "dict"
    THEN PyFrozenset({PyTuple(<<freezedicts(e.items[1]), freezedicts(e.items[2])>>) :
                        e \in Range(obj.items)})
  ELSE obj

make_hashable(data) == freezedicts(data)

(***************************************************************************)
(* make_md5                                                                *)
(***************************************************************************)
\* the characters of the model, in ASCII order
Alphabet == <<"\n", "'", "(", "-", ".", "0", "1", "2", "3", "4", "5", "6", "7", "8", "9",
              "I", "N", "S", "a", "b", "c", "p", "t">>
Ord(c) == CHOOSE i \in 1..Len(Alphabet) : Alphabet[i] = c

Digits == <<"0", "1", "2", "3", "4", "5", "6", "7", "8", "9">>

\* str(n) of a non-negative int
RECURSIVE NatToStr(_)
NatToStr(n) == IF n < 10 THEN <<Digits[n + 1]>> ELSE NatToStr(n \div 10) \o <<Digits[(n % 10) + 1]>>

\* str(n) of an int
IntToStr(n) == IF n < 0 THEN <<"-">> \o NatToStr(0 - n) ELSE NatToStr(n)

\* a < b on byte strings
RECURSIVE StrLess(_, _)
StrLess(a, b) ==
  IF b = <<>> THEN FALSE
  ELSE IF a = <<>> THEN TRUE
  ELSE IF Head(a) # Head(b) THEN Ord(Head(a)) < Ord(Head(b))
  ELSE StrLess(Tail(a), Tail(b))

\* a < b of Python 2 on the keys a mapping of the model has: None first, then
\* numbers by value (a float is n/2), then strings
TypeRank(obj) == IF obj.t = "none" THEN 0 ELSE IF obj.t \in {"int", "float"} THEN 1 ELSE 2
Twice(obj) == IF obj.t = "int" THEN 2 * obj.n ELSE obj.n
py_less(a, b) ==
  IF TypeRank(a) # TypeRank(b) THEN TypeRank(a) < TypeRank(b)
  ELSE IF TypeRank(a) = 1 THEN Twice(a) < Twice(b)
  ELSE IF TypeRank(a) = 2 THEN StrLess(a.s, b.s)
  ELSE FALSE

\* obj.keys() in insertion order, and obj[k]
dict_keys(obj) == [i \in 1..Len(obj.items) |-> obj.items[i].items[1]]
dict_getitem(obj, k) ==
  (CHOOSE e \in Range(obj.items) : e.items[1] = k).items[2]

\* sorted(seq): a stable insertion sort
RECURSIVE insert_sorted(_, _)
insert_sorted(sortedSeq, x) ==
  IF sortedSeq = <<>> THEN <<x>>
  ELSE IF py_less(x, Head(sortedSeq)) THEN <<x>> \o sortedSeq
  ELSE <<Head(sortedSeq)>> \o insert_sorted(Tail(sortedSeq), x)

\* a sort that gives its input back reversed
sorted_reversing(seq) == [i \in 1..Len(seq) |-> seq[Len(seq) + 1 - i]]

RECURSIVE sorted(_)
sorted(seq) ==
  IF seq = <<>> THEN <<>> ELSE insert_sorted(sorted(SubSeq(seq, 1, Len(seq) - 1)), seq[Len(seq)])

\* a walk that takes a mapping's keys as the mapping gives them
walk_key_order_as_inserted(obj) == dict_keys(obj)

\* the order a mapping's keys are walked in
walk_key_order(obj) == sorted(dict_keys(obj))

\* The generator walk(obj): the chunks it yields, in order, up to the
\* ValueError it raises (if any).
RECURSIVE walk(_)
RECURSIVE walk_all(_)

\* walking a list of objects one after the other, stopping at the first raise
walk_all(objs) ==
  IF objs = <<>> THEN [chunks |-> <<>>, raised |-> ""]
  ELSE LET first == walk(Head(objs))
       IN  IF first.raised # "" THEN first
           ELSE LET rest == walk_all(Tail(objs))
                IN  [chunks |-> first.chunks \o rest.chunks, raised |-> rest.raised]

walk(obj) ==
  IF obj.t \in {"tuple", "list"} THEN walk_all(obj.items)
  ELSE IF obj.t = "dict"
    THEN LET ks == walk_key_order(obj)
             flat == [i \in 1..(2 * Len(ks)) |->
                        IF i % 2 = 1 THEN ks[(i + 1) \div 2]
                                     ELSE dict_getitem(obj, ks[i \div 2])]
         IN  walk_all(flat)
  ELSE IF obj.t = "hunk" THEN [chunks |-> <<obj.s>>, raised |-> ""]
  ELSE IF obj.t = "filter" THEN [chunks |-> <<IntToStr(obj.n)>>, raised |-> ""]
  ELSE IF obj.t = "int" THEN [chunks |-> <<IntToStr(obj.n)>>, raised |-> ""]
  ELSE IF obj.t = "str" THEN [chunks |-> <<obj.s>>, raised |-> ""]
  ELSE [chunks |-> <<>>, raised |-> "ValueError"]

\* md5_constructor(), md5.update(d), md5.hexdigest(): the digest is a function
\* of the bytes fed in, all chunks joined.  MD5 itself is taken to be free of
\* collisions on the messages of the model: the digest is written as the
\* message it stands for.
md5_constructor == <<>>
md5_update(md5, d) == md5 \o d
md5_hexdigest(md5) == <<"md5">> \o md5

RECURSIVE md5_update_all(_, _)
md5_update_all(md5, chunks) ==
  IF chunks = <<>> THEN md5 ELSE md5_update_all(md5_update(md5, Head(chunks)), Tail(chunks))

\* a digest of whatever was walked before the error
make_md5_ignoring_errors(data) ==
  [ret |-> PyStr(md5_hexdigest(md5_update_all(md5_constructor, walk(data).chunks))),
   raised |-> ""]

make_md5(data) ==
  LET w == walk(data)
  IN  IF w.raised # "" THEN [ret |-> PyNone, raised |-> w.raised]
      ELSE [ret |-> PyStr(md5_hexdigest(md5_update_all(md5_constructor, w.chunks))),
            raised |-> ""]

(***************************************************************************)
(* The value codec.  pickle is the standard library's, protocol 0, on the  *)
(* values of the model: None, ints, strs and tuples of them.               *)
(***************************************************************************)
PyMark == PyObj("mark", 0, <<>>, <<>>, {})
PyBool(n) == PyObj("bool", n, <<>>, <<>>, {})

\* PUT of the n-th memoised object
pickle_put(n) == <<"p">> \o NatToStr(n) \o <<"\n">>

\* save(obj): the opcodes written for obj, and the number of memoised objects
RECURSIVE pickle_save(_, _)
RECURSIVE pickle_save_all(_, _)
pickle_save_all(objs, memo) ==
  IF objs = <<>> THEN [out |-> <<>>, memo |-> memo]
  ELSE LET first == pickle_save(Head(objs), memo)
           rest == pickle_save_all(Tail(objs), first.memo)
       IN  [out |-> first.out \o rest.out, memo |-> rest.memo]

pickle_save(obj, memo) ==
  IF obj.t = "none" THEN [out |-> <<"N">>, memo |-> memo]
  ELSE IF obj.t = "int" THEN [out |-> <<"I">> \o IntToStr(obj.n) \o <<"\n">>, memo |-> memo]
  ELSE IF obj.t = "bool" THEN [out |-> <<"I", "0", Digits[obj.n + 1], "\n">>, memo |-> memo]
  ELSE IF obj.t = "str"
    THEN [out |-> <<"S", "'">> \o obj.s \o <<"'", "\n">> \o pickle_put(memo), memo |-> memo + 1]
  ELSE IF obj.items = <<>> THEN [out |-> <<"(", "t">>, memo |-> memo]
  ELSE LET elems == pickle_save_all(obj.items, memo)
       IN  [out |-> <<"(">> \o elems.out \o <<"t">> \o pickle_put(elems.memo),
            memo |-> elems.memo + 1]

\* pickle.dumps(value)
pickle_dumps(value) == PyStr(pickle_save(value, 0).out \o <<".">>)

\* readline(): the bytes up to the first newline, and what follows it
RECURSIVE read_line(_)
read_line(bytes) ==
  IF bytes = <<>> THEN [ok |-> FALSE, line |-> <<>>, rest |-> <<>>]
  ELSE IF Head(bytes) = "\n" THEN [ok |-> TRUE, line |-> <<>>, rest |-> Tail(bytes)]
  ELSE LET more == read_line(Tail(bytes))
       IN  [ok |-> more.ok, line |-> <<Head(bytes)>> \o more.line, rest |-> more.rest]

IsDigits(text) == text # <<>> /\ \A i \in 1..Len(text) : text[i] \in Range(Digits)
DigitValue(c) == (CHOOSE i \in 1..10 : Digits[i] = c) - 1

RECURSIVE StrToNat(_)
StrToNat(text) ==
  IF text = <<>> THEN 0
  ELSE 10 * StrToNat(SubSeq(text, 1, Len(text) - 1)) + DigitValue(text[Len(text)])

\* the index of the topmost MARK of the stack, 0 if there is none
top_mark(stack) ==
  IF \E i \in 1..Len(stack) : stack[i] = PyMark
    THEN CHOOSE i \in 1..Len(stack) :
           stack[i] = PyMark /\ \A j \in (i + 1)..Len(stack) : stack[j] # PyMark
    ELSE 0

\* The unpickling machine: one opcode at a time until STOP.
RECURSIVE pickle_load(_, _)
pickle_load(bytes, stack) ==
  IF bytes = <<>> THEN [ret |-> PyNone, raised |-> "EOFError"]
  ELSE LET op == Head(bytes)
           rest == Tail(bytes)
           arg == read_line(rest)
       IN
    IF op = "." THEN
      IF stack = <<>> THEN [ret |-> PyNone, raised |-> "IndexError"]
      ELSE [ret |-> stack[Len(stack)], raised |-> ""]
    ELSE IF op = "N" THEN pickle_load(rest, Append(stack, PyNone))
    ELSE IF op = "(" THEN pickle_load(rest, Append(stack, PyMark))
    ELSE IF op = "t" THEN
      IF top_mark(stack) = 0 THEN [ret |-> PyNone, raised |-> "IndexError"]
      ELSE LET m == top_mark(stack)
           IN  pickle_load(rest, Append(SubSeq(stack, 1, m - 1),
                                        PyTuple(SubSeq(stack, m + 1, Len(stack)))))
    ELSE IF op = "I" THEN
      IF ~arg.ok THEN [ret |-> PyNone, raised |-> "EOFError"]
      ELSE IF arg.line = <<"0", "0">> THEN pickle_load(arg.rest, Append(stack, PyBool(0)))
      ELSE IF arg.line = <<"0", "1">> THEN pickle_load(arg.rest, Append(stack, PyBool(1)))
      ELSE IF IsDigits(arg.line) THEN pickle_load(arg.rest, Append(stack, PyInt(StrToNat(arg.line))))
      ELSE IF arg.line # <<>> /\ Head(arg.line) = "-" /\ IsDigits(Tail(arg.line))
        THEN pickle_load(arg.rest, Append(stack, PyInt(0 - StrToNat(Tail(arg.line)))))
      ELSE [ret |-> PyNone, raised |-> "ValueError"]
    ELSE IF op = "S" THEN
      IF ~arg.ok THEN [ret |-> PyNone, raised |-> "EOFError"]
      ELSE IF Len(arg.line) >= 2 /\ arg.line[1] = "'" /\ arg.line[Len(arg.line)] = "'"
                /\ "'" \notin Range(SubSeq(arg.line, 2, Len(arg.line) - 1))
        THEN pickle_load(arg.rest, Append(stack, PyStr(SubSeq(arg.line, 2, Len(arg.line) - 1))))
      ELSE [ret |-> PyNone, raised |-> "ValueError"]
    ELSE IF op = "p" THEN
      IF ~arg.ok THEN [ret |-> PyNone, raised |-> "EOFError"]
      ELSE IF stack = <<>> THEN [ret |-> PyNone, raised |-> "IndexError"]
      ELSE pickle_load(arg.rest, stack)
    ELSE [ret |-> PyNone, raised |-> "UnpicklingError"]

\* pickle.loads(string)
pickle_loads(string) == pickle_load(string.s, <<>>)

\* a codec that hands every value to the file as its str()
maybe_pickle_str(value) ==
  IF value.t = "int" THEN PyStr(IntToStr(value.n)) ELSE
  IF value.t # "str" THEN pickle_dumps(value) ELSE value

maybe_pickle(value) ==
  IF value.t # "str" THEN pickle_dumps(value) ELSE value

\* a decoder that tolerates a truncated payload only
safe_unpickle_eof_only(string) ==
  LET r == pickle_loads(string)
  IN  IF r.raised = "EOFError" THEN [ret |-> PyNone, raised |-> ""] ELSE r

safe_unpickle(string) ==
  LET r == pickle_loads(string)
  IN  IF r.raised # "" THEN [ret |-> PyNone, raised |-> ""] ELSE r

(***************************************************************************)
(* MemoryCache                                                             *)
(***************************************************************************)
MemoryCache_init(capacity) == [capacity |-> capacity, keys |-> <<>>, cache |-> <<>>]

\* dict.get(key, None)
dict_get(d, key) == IF key \in DOMAIN d THEN d[key] ELSE PyNone

\* d[key] = value
dict_setitem(d, key, value) ==
  [k \in DOMAIN d \cup {key} |-> IF k = key THEN value ELSE d[k]]

\* del d[key], for a key of d
dict_delitem(d, key) == [k \in DOMAIN d \ {key} |-> d[k]]

\* list.remove(x) removes the first occurrence; the ValueError of a missing x
\* is swallowed by the caller (lines 148-151)
list_remove(seq, x) ==
  IF x \notin Range(seq) THEN seq
  ELSE LET i == CHOOSE j \in 1..Len(seq) :
                  seq[j] = x /\ \A m \in 1..(j - 1) : seq[m] # x
       IN  SubSeq(seq, 1, i - 1) \o SubSeq(seq, i + 1, Len(seq))

\* for item in to_delete: del cache[item]  -- KeyError stops the loop
RECURSIVE delete_items(_, _)
delete_items(cache, to_delete) ==
  IF to_delete = <<>> THEN [cache |-> cache, raised |-> ""]
  ELSE IF Head(to_delete) \notin DOMAIN cache THEN [cache |-> cache, raised |-> "KeyError"]
  ELSE delete_items(dict_delitem(cache, Head(to_delete)), Tail(to_delete))

\* a store that refreshes recency on a hit (an LRU)
MemoryCache_get_refreshing(self, key, python) ==
  LET k == make_hashable(key)
  IN  [self |-> IF k \in Range(self.keys)
                  THEN [self EXCEPT !.keys = Append(list_remove(self.keys, k), k)]
                  ELSE self,
       ret |-> dict_get(self.cache, k), raised |-> ""]

MemoryCache_get(self, key, python) ==
  LET k == make_hashable(key)
  IN  [self |-> self, ret |-> dict_get(self.cache, k), raised |-> ""]

\* a store whose limit is off by one: it keeps capacity + 1 entries
MemoryCache_set_off_by_one(self, key, value) ==
  LET k == make_hashable(key)
      cache1 == dict_setitem(self.cache, k, value)
      keys1 == Append(list_remove(self.keys, k), k)
      to_delete == Slice(keys1, 0, Max(0, Len(keys1) - self.capacity - 1))
      keys2 == Slice(keys1, Len(to_delete), Len(keys1))
      del == delete_items(cache1, to_delete)
  IN  [self |-> [capacity |-> self.capacity, keys |-> keys2, cache |-> del.cache],
       ret |-> PyNone, raised |-> del.raised]

\* a store that does not move a key that is written again
MemoryCache_set_no_move(self, key, value) ==
  LET k == make_hashable(key)
      cache1 == dict_setitem(self.cache, k, value)
      keys1 == IF k \in Range(self.keys) THEN self.keys ELSE Append(self.keys, k)
      to_delete == Slice(keys1, 0, Max(0, Len(keys1) - self.capacity))
      keys2 == Slice(keys1, Len(to_delete), Len(keys1))
      del == delete_items(cache1, to_delete)
  IN  [self |-> [capacity |-> self.capacity, keys |-> keys2, cache |-> del.cache],
       ret |-> PyNone, raised |-> del.raised]

\* a store that evicts one entry more than it has to
MemoryCache_set_evicting_extra(self, key, value) ==
  LET k == make_hashable(key)
      cache1 == dict_setitem(self.cache, k, value)
      keys1 == Append(list_remove(self.keys, k), k)
      to_delete == Slice(keys1, 0, Max(0, Len(keys1) - self.capacity + 1))
      keys2 == Slice(keys1, Len(to_delete), Len(keys1))
      del == delete_items(cache1, to_delete)
  IN  [self |-> [capacity |-> self.capacity, keys |-> keys2, cache |-> del.cache],
       ret |-> PyNone, raised |-> del.raised]

\* a store that keeps the first value written for a key it still holds
MemoryCache_set_keeping_old_value(self, key, value) ==
  LET k == make_hashable(key)
      cache1 == IF k \in DOMAIN self.cache THEN self.cache ELSE dict_setitem(self.cache, k, value)
      keys1 == Append(list_remove(self.keys, k), k)
      to_delete == Slice(keys1, 0, Max(0, Len(keys1) - self.capacity))
      keys2 == Slice(keys1, Len(to_delete), Len(keys1))
      del == delete_items(cache1, to_delete)
  IN  [self |-> [capacity |-> self.capacity, keys |-> keys2, cache |-> del.cache],
       ret |-> PyNone, raised |-> del.raised]

\* a store that appends a key without removing its earlier occurrence
MemoryCache_set_no_remove(self, key, value) ==
  LET k == make_hashable(key)
      cache1 == dict_setitem(self.cache, k, value)
      keys1 == Append(self.keys, k)
      to_delete == Slice(keys1, 0, Max(0, Len(keys1) - self.capacity))
      keys2 == Slice(keys1, Len(to_delete), Len(keys1))
      del == delete_items(cache1, to_delete)
  IN  [self |-> [capacity |-> self.capacity, keys |-> keys2, cache |-> del.cache],
       ret |-> PyNone, raised |-> del.raised]

MemoryCache_set(self, key, value) ==
  LET k == make_hashable(key)
      cache1 == dict_setitem(self.cache, k, value)
      keys1 == Append(list_remove(self.keys, k), k)
      to_delete == Slice(keys1, 0, Max(0, Len(keys1) - self.capacity))
      keys2 == Slice(keys1, Len(to_delete), Len(keys1))
      del == delete_items(cache1, to_delete)
  IN  [self |-> [capacity |-> self.capacity, keys |-> keys2, cache |-> del.cache],
       ret |-> PyNone, raised |-> del.raised]

(***************************************************************************)
(* FilesystemCache.  The file system is a mapping from file names to       *)
(* contents; the root directory exists and is writable.                    *)
(***************************************************************************)
FilesystemCache_init(directory) == [directory |-> directory]

\* path.join(directory, name)
path_join(directory, name) == directory \o <<"/">> \o name

\* path.exists(filename)
path_exists(files, filename) == filename \in DOMAIN files

\* open(filename, 'rb'); f.read(); f.close()
file_read(files, filename) == files[filename]

\* an open for writing that keeps the bytes the file holds
open_wb_keeping(files, filename) ==
  [f \in DOMAIN files \cup {filename} |-> IF f \in DOMAIN files THEN files[f] ELSE <<>>]

\* an open that leaves no other file in the directory
open_wb_alone(files, filename) ==
  [f \in {filename} |-> <<>>]

\* open(filename, 'wb'): the file is created, or cut to no bytes
open_wb(files, filename) ==
  [f \in DOMAIN files \cup {filename} |-> IF f = filename THEN <<>> ELSE files[f]]

\* f.write(data) at the start of an open file, then f.close(): the bytes
\* beyond the written ones stay
file_write(files, filename, data) ==
  [files EXCEPT ![filename] = data \o SubSeq(@, Len(data) + 1, Len(@))]

\* a get that never decodes
FilesystemCache_get_never_decoding(self, files, key, python) ==
  LET m == make_md5(key)
      filename == path_join(self.directory, m.ret.s)
  IN  IF m.raised # "" THEN [files |-> files, ret |-> PyNone, raised |-> m.raised]
      ELSE IF ~path_exists(files, filename) THEN [files |-> files, ret |-> PyNone, raised |-> ""]
      ELSE [files |-> files, ret |-> PyStr(file_read(files, filename)), raised |-> ""]

FilesystemCache_get(self, files, key, python) ==
  LET m == make_md5(key)
      filename == path_join(self.directory, m.ret.s)
  IN  IF m.raised # "" THEN [files |-> files, ret |-> PyNone, raised |-> m.raised]
      ELSE IF ~path_exists(files, filename) THEN [files |-> files, ret |-> PyNone, raised |-> ""]
      ELSE LET result == PyStr(file_read(files, filename))
           IN  IF python
                 THEN LET u == safe_unpickle(result)
                      IN  [files |-> files, ret |-> u.ret, raised |-> u.raised]
                 ELSE [files |-> files, ret |-> result, raised |-> ""]

\* f.write(data) with the file position at pos: the bytes land at pos, the
\* bytes before and beyond stay
file_write_at(files, filename, pos, data) ==
  [files EXCEPT ![filename] =
     SubSeq(@, 1, pos) \o data \o SubSeq(@, pos + Len(data) + 1, Len(@))]

FilesystemCache_set(self, files, key, data) ==
  LET m == make_md5(key)
      filename == path_join(self.directory, m.ret.s)
  IN  IF m.raised # "" THEN [files |-> files, ret |-> PyNone, raised |-> m.raised]
      ELSE [files |-> file_write(open_wb(files, filename), filename, maybe_pickle(data).s),
            ret |-> PyNone, raised |-> ""]

(***************************************************************************)
(* Bounds and the inputs of the memory store                               *)
(***************************************************************************)
MaxCapacity == 2

Ca == <<"a">>
Cb == <<"b">>
DictAB == PyDict(<<PyTuple(<<PyStr(Ca), PyInt(1)>>), PyTuple(<<PyStr(Cb), PyInt(2)>>)>>)
DictBA == PyDict(<<PyTuple(<<PyStr(Cb), PyInt(2)>>), PyTuple(<<PyStr(Ca), PyInt(1)>>)>>)

\* k1, k2, k3 and one key with a mapping, given in both insertion orders
MemKeys == { PyTuple(<<PyStr(Ca), PyInt(1)>>), PyTuple(<<PyStr(Ca), PyInt(2)>>),
             PyStr(Cb), PyTuple(<<PyStr(Ca), DictAB>>), PyTuple(<<PyStr(Ca), DictBA>>) }
MemValues == { PyStr(Ca), PyStr(Cb), PyInt(42) }
Capacities == {-1} \cup (0..MaxCapacity)

(***************************************************************************)
(* The memory store as a state machine                                     *)
(***************************************************************************)
NoCall == [op |-> "none", key |-> PyNone, value |-> PyNone, ret |-> PyNone, raised |-> ""]

\* the memory store while another component is exercised
MemIdle ==
  /\ memory = MemoryCache_init(0)
  /\ memRet = NoCall
  /\ writeOrder = <<>>

NoResult == [ret |-> PyNone, raised |-> ""]

\* the key functions while another component is exercised
KeyIdle ==
  /\ keyIn = <<PyNone, PyNone>>
  /\ keyOut = [hashable |-> <<PyNone, PyNone>>, md5 |-> <<NoResult, NoResult>>]
  /\ keyPc = "idle"

\* the codec while another component is exercised
CodecIdle ==
  /\ codecIn = PyNone
  /\ codecPayload = PyNone
  /\ codecOut = NoResult
  /\ codecPc = "idle"

NoFsCall == [op |-> "none", key |-> PyNone, value |-> PyNone, python |-> FALSE,
             ret |-> PyNone, raised |-> ""]

\* the file store while another component is exercised
FsIdle ==
  /\ disk = <<>>
  /\ fsRet = NoFsCall
  /\ lastSet = <<>>

WrIdle == [pc |-> "idle", key |-> PyNone, data |-> PyNone, filename |-> <<>>, pos |-> 0]
RdIdle == [pc |-> "idle", key |-> PyNone, python |-> FALSE, filename |-> <<>>,
           result |-> <<>>, overlap |-> FALSE]

\* no thread is inside a call of the file store
RaceIdle ==
  /\ wr = WrIdle
  /\ rd = RdIdle
  /\ committed = <<>>

NoFacCall == [op |-> "none", option |-> PyNone, other |-> PyNone, ret |-> PyNone, raised |-> ""]

\* no cache object was made and no directory exists
FacIdle ==
  /\ heap = <<>>
  /\ dirs = {}
  /\ facRet = NoFacCall

MemInit ==
  /\ KeyIdle /\ CodecIdle /\ FsIdle /\ RaceIdle /\ FacIdle
  /\ \E c \in Capacities : memory = MemoryCache_init(c)
  /\ memRet = NoCall
  /\ writeOrder = <<>>

MemSet(key, value) ==
  LET r == MemoryCache_set(memory, key, value)
  IN  /\ memory' = r.self
      /\ memRet' = [op |-> "set", key |-> key, value |-> value, ret |-> r.ret, raised |-> r.raised]
      /\ writeOrder' = Append(SelectSeq(writeOrder, LAMBDA k : k # make_hashable(key)),
                              make_hashable(key))
      /\ UNCHANGED <<keyVars, codecVars, fsVars, raceVars, facVars>>

MemGet(key, python) ==
  LET r == MemoryCache_get(memory, key, python)
  IN  /\ memory' = r.self
      /\ memRet' = [op |-> "get", key |-> key, value |-> PyNone, ret |-> r.ret, raised |-> r.raised]
      /\ UNCHANGED <<writeOrder, keyVars, codecVars, fsVars, raceVars, facVars>>

MemNext ==
  \/ \E key \in MemKeys, value \in MemValues : MemSet(key, value)
  \/ \E key \in MemKeys, python \in BOOLEAN : MemGet(key, python)

SpecMemory == MemInit /\ [][MemNext]_vars

(***************************************************************************)
(* Claims about the memory store                                           *)
(***************************************************************************)
MK1 == PyTuple(<<PyStr(Ca), PyInt(1)>>)
MK2 == PyTuple(<<PyStr(Ca), PyInt(2)>>)
MK3 == PyStr(Cb)

\* C1: with a capacity c >= 0, the mapping never holds more than c entries,
\* whatever set and get calls were made.
C1_CapacityInvariant ==
  memory.capacity >= 0 => Cardinality(DOMAIN memory.cache) <= memory.capacity

\* a set on a full store of capacity 2 has just evicted an entry
C1_Witness ==
  /\ memRet.op = "set"
  /\ memory.capacity = 2
  /\ Len(writeOrder) = 3
  /\ Cardinality(DOMAIN memory.cache) = 2

\* C2: the recency sequence is the live keys in the order of their most
\* recent set: it is the newest end of the write order, min(capacity, keys
\* written) long, so the keys missing from the store are the ones least
\* recently written, and a lookup finds exactly the keys of that newest end.
C2_WriteOrderEviction ==
  memory.capacity >= 0 =>
    LET n == Len(writeOrder)
        live == Min(memory.capacity, n)
    IN  /\ memory.keys = SubSeq(writeOrder, n - live + 1, n)
        /\ \A i \in 1..n :
             (MemoryCache_get(memory, writeOrder[i], FALSE).ret = PyNone) <=> (i <= n - live)

\* capacity 2 after set(k1); set(k2); set(k1); set(k3): k2 is gone, k1 is not
C2_Witness ==
  /\ memory.capacity = 2
  /\ writeOrder = <<MK2, MK1, MK3>>
  /\ memory.keys = <<MK1, MK3>>
  /\ MK2 \notin DOMAIN memory.cache

\* C3: a get, of a present or an absent key, with any python flag, changes
\* neither the mapping nor the recency sequence.
C3_GetHasNoSideEffect ==
  [][memRet'.op = "get" => memory' = memory]_vars

\* a hit on the oldest key of a full store: the key read is still the next
\* one to be evicted
C3_Witness ==
  /\ memRet.op = "get"
  /\ memRet.ret # PyNone
  /\ Len(memory.keys) = 2
  /\ memory.keys[1] = make_hashable(memRet.key)

(***************************************************************************)
(* The key functions as a state machine: two keys are drawn, make_hashable *)
(* is applied to both, then make_md5 to both.                              *)
(***************************************************************************)
MaxDictLen == 2

Cab == <<"a", "b">>
Cbc == <<"b", "c">>
Cc == <<"c">>
Cdigit1 == <<"1">>

DictKeyAtoms == { PyStr(Ca), PyStr(Cb), PyInt(1) }
DictValAtoms == { PyInt(1), PyInt(2) }

\* the mappings of n entries, in every insertion order
DictsOfLen(n) ==
  { PyDict([i \in 1..n |-> PyTuple(<<ks[i], vs[i]>>)]) :
      ks \in { f \in [1..n -> DictKeyAtoms] : \A i, j \in 1..n : f[i] = f[j] => i = j },
      vs \in [1..n -> DictValAtoms] }
FlatDicts == UNION { DictsOfLen(n) : n \in 0..Min(MaxDictLen, Cardinality(DictKeyAtoms)) }

\* a mapping inside a mapping, and mappings with an unsupported key or value
NestedDicts ==
  UNION { { PyDict(<<PyTuple(<<PyStr(Cb), PyInt(1)>>), PyTuple(<<PyStr(Ca), d>>)>>),
            PyDict(<<PyTuple(<<PyStr(Ca), d>>), PyTuple(<<PyStr(Cb), PyInt(1)>>)>>) } :
          d \in {DictAB, DictBA, PyFloat(3)} }
  \cup { PyDict(<<PyTuple(<<PyFloat(3), PyInt(1)>>), PyTuple(<<PyInt(1), PyInt(2)>>)>>) }

Scalars == { PyInt(1), PyInt(2), PyInt(12), PyStr(Ca), PyStr(Cb), PyStr(Cab), PyStr(Cdigit1) }
Opaques == { PyHunk(Ca), PyHunk(Cab), PyFilter(12), PyFilter(-3) }
Unsupported == { PyFloat(3), PyNone }

Cores == Scalars \cup Opaques \cup Unsupported \cup FlatDicts \cup NestedDicts

\* keys that differ in structure only
AliasKeys ==
  { PyTuple(<<PyStr(Cab), PyStr(Cc)>>), PyTuple(<<PyStr(Ca), PyStr(Cbc)>>),
    PyTuple(<<PyInt(1), PyTuple(<<PyInt(2), PyInt(3)>>)>>),
    PyTuple(<<PyTuple(<<PyInt(1), PyInt(2)>>), PyInt(3)>>),
    PyTuple(<<PyStr(Ca), PyInt(1)>>) }

KeyUniverse ==
  Cores \cup AliasKeys
        \cup { PyTuple(<<PyStr(Ca), c>>) : c \in Cores }
        \cup { PyList(<<PyTuple(<<c>>), PyInt(1)>>) : c \in Cores }

KeyInit ==
  /\ MemIdle /\ CodecIdle /\ FsIdle /\ RaceIdle /\ FacIdle
  /\ keyIn \in KeyUniverse \X KeyUniverse
  /\ keyOut = [hashable |-> <<PyNone, PyNone>>, md5 |-> <<NoResult, NoResult>>]
  /\ keyPc = "in"

KeyHashable ==
  /\ keyPc = "in"
  /\ keyOut' = [keyOut EXCEPT !.hashable = <<make_hashable(keyIn[1]), make_hashable(keyIn[2])>>]
  /\ keyPc' = "hashed"
  /\ UNCHANGED <<keyIn, memVars, codecVars, fsVars, raceVars, facVars>>

KeyMd5 ==
  /\ keyPc = "hashed"
  /\ keyOut' = [keyOut EXCEPT !.md5 = <<make_md5(keyIn[1]), make_md5(keyIn[2])>>]
  /\ keyPc' = "done"
  /\ UNCHANGED <<keyIn, memVars, codecVars, fsVars, raceVars, facVars>>

KeyNext == KeyHashable \/ KeyMd5

SpecKey == KeyInit /\ [][KeyNext]_vars

(***************************************************************************)
(* Claims about the key functions                                          *)
(***************************************************************************)
\* a key made of sequences, mappings, hunks, filters, integers and strings only
RECURSIVE Supported(_)
Supported(obj) ==
  IF obj.t \in {"tuple", "list", "dict"}
    THEN \A i \in 1..Len(obj.items) : Supported(obj.items[i])
  ELSE obj.t \in {"hunk", "filter", "int", "str"}

\* the depth at which a key holds a mapping (0: none; 1: the key itself)
RECURSIVE DictDepth(_)
DictDepth(obj) ==
  IF obj.t = "dict" THEN 1
  ELSE IF obj.t \in {"tuple", "list"} /\ \E i \in 1..Len(obj.items) : DictDepth(obj.items[i]) > 0
    THEN 1 + (CHOOSE d \in 1..8 : \E i \in 1..Len(obj.items) : DictDepth(obj.items[i]) = d)
  ELSE 0

RECURSIVE Reordered(_, _)
Reordered(a, b) ==
  IF a.t # b.t THEN FALSE
  ELSE IF a.t \in {"tuple", "list"}
    THEN /\ Len(a.items) = Len(b.items)
         /\ \A i \in 1..Len(a.items) : Reordered(a.items[i], b.items[i])
  ELSE IF a.t = "dict"
    THEN /\ Len(a.items) = Len(b.items)
         /\ \A i \in 1..Len(a.items) : \E j \in 1..Len(b.items) :
              /\ a.items[i].items[1] = b.items[j].items[1]
              /\ Reordered(a.items[i].items[2], b.items[j].items[2])
  ELSE a = b

\* the chunks of a flat mapping's entries, by ascending key, key then value
RECURSIVE EntriesAscending(_)
EntriesAscending(entries) ==
  IF entries = {} THEN <<>>
  ELSE LET least == CHOOSE e \in entries :
                      \A o \in entries \ {e} : py_less(e.items[1], o.items[1])
       IN  walk(least.items[1]).chunks \o walk(least.items[2]).chunks
             \o EntriesAscending(entries \ {least})

\* C9: a key holding a mapping has the same digest whatever order the
\* mapping's entries were inserted in, at any depth; a mapping of scalars is
\* walked by ascending key, each key followed by its value.
C9_MappingOrderIndependence ==
  keyPc = "done" =>
    /\ (DictDepth(keyIn[1]) > 0 /\ Reordered(keyIn[1], keyIn[2]))
         => keyOut.md5[1] = keyOut.md5[2]
    /\ keyIn[1] \in FlatDicts
         => keyOut.md5[1].ret =
              PyStr(md5_hexdigest(md5_update_all(md5_constructor,
                                    EntriesAscending(Range(keyIn[1].items)))))

\* the same two-entry mapping in its two insertion orders, below a sequence
C9_Witness ==
  /\ keyPc = "done"
  /\ keyIn[1] = PyTuple(<<PyStr(Ca), DictAB>>)
  /\ keyIn[2] = PyTuple(<<PyStr(Ca), DictBA>>)
  /\ keyOut.md5[1].raised = ""
  /\ keyOut.md5[1] = keyOut.md5[2]

(***************************************************************************)
(* The codec as a state machine: a value is drawn and encoded, the payload *)
(* may lose its tail, and is decoded.                                      *)
(***************************************************************************)
CNdot == <<"N", ".">>
CI42 == <<"I", "4", "2", "\n", ".">>

CodecValues ==
  { PyNone, PyBool(1), PyInt(0), PyInt(42), PyInt(-3),
    PyTuple(<<>>), PyTuple(<<PyInt(1), PyStr(Ca)>>),
    PyTuple(<<PyTuple(<<PyStr(Cab)>>), PyNone, PyStr(Cb)>>),
    PyStr(<<>>), PyStr(Cab), PyStr(CNdot), PyStr(CI42) }

CodecInit ==
  /\ MemIdle /\ KeyIdle /\ FsIdle /\ RaceIdle /\ FacIdle
  /\ codecIn \in CodecValues
  /\ codecPayload = PyNone
  /\ codecOut = NoResult
  /\ codecPc = "in"

CodecEncode ==
  /\ codecPc = "in"
  /\ codecPayload' = maybe_pickle(codecIn)
  /\ codecPc' = "encoded"
  /\ UNCHANGED <<codecIn, codecOut, memVars, keyVars, fsVars, raceVars, facVars>>

\* the payload is cut to its first n bytes
CodecTruncate(n) ==
  /\ codecPc = "encoded"
  /\ n < Len(codecPayload.s)
  /\ codecPayload' = PyStr(SubSeq(codecPayload.s, 1, n))
  /\ codecPc' = "damaged"
  /\ UNCHANGED <<codecIn, codecOut, memVars, keyVars, fsVars, raceVars, facVars>>

CodecDecode ==
  /\ codecPc \in {"encoded", "damaged"}
  /\ codecOut' = safe_unpickle(codecPayload)
  /\ codecPc' = IF codecPc = "encoded" THEN "done" ELSE "done_damaged"
  /\ UNCHANGED <<codecIn, codecPayload, memVars, keyVars, fsVars, raceVars, facVars>>

CodecNext ==
  \/ CodecEncode
  \/ \E n \in 0..Len(codecPayload.s) : CodecTruncate(n)
  \/ CodecDecode

SpecCodec == CodecInit /\ [][CodecNext]_vars

(***************************************************************************)
(* Claims about the codec                                                  *)
(***************************************************************************)
\* C6 as stated: decode(encode(v)) = v for every value, raw strings included.
C6_RoundTripEveryValue ==
  codecPc = "done" => codecOut = [ret |-> codecIn, raised |-> ""]

\* C6, amended: decode(encode(v)) = v for every value v that is not a string;
\* a string is its own payload, which encode leaves as it is.
C6_RoundTripNonString ==
  /\ (codecPc = "done" /\ codecIn.t # "str") => codecOut = [ret |-> codecIn, raised |-> ""]
  /\ (codecPc \in {"encoded", "done"} /\ codecIn.t = "str") => codecPayload = codecIn

\* a nested tuple with strings in it went through the codec and came back
C6_Witness ==
  /\ codecPc = "done"
  /\ codecIn = PyTuple(<<PyTuple(<<PyStr(Cab)>>), PyNone, PyStr(Cb)>>)
  /\ codecPayload # codecIn
  /\ codecOut.ret = codecIn

(***************************************************************************)
(* The file store as a state machine: set and get calls that do not        *)
(* overlap, and files of the root deleted or cut short from outside.       *)
(***************************************************************************)
Root == <<"R">>
Tampered == PyObj("tampered", 0, <<>>, <<>>, {})

FKabc == PyTuple(<<PyStr(Cab), PyStr(Cc)>>)
FKa_bc == PyTuple(<<PyStr(Ca), PyStr(Cbc)>>)
FKb1 == PyTuple(<<PyStr(Cb), PyInt(1)>>)

\* keys with an element make_md5 does not know: after supported elements,
\* two levels down, and as a value of a mapping
FKfloat == PyTuple(<<PyStr(Cab), PyStr(Cc), PyFloat(3)>>)
FKnested == PyTuple(<<PyStr(Cb), PyTuple(<<PyTuple(<<PyNone>>), PyInt(1)>>)>>)
FKdict == PyTuple(<<PyStr(Cb), PyDict(<<PyTuple(<<PyInt(1), PyFloat(3)>>)>>)>>)

FsGoodKeys == { FKabc, FKa_bc, FKb1 }
FsBadKeys == { FKfloat, FKnested, FKdict }
FsKeys == FsGoodKeys \cup FsBadKeys
FsValues == { PyStr(Cab), PyInt(42), PyTuple(<<>>) }

FileNameOf(key) == path_join(Root, make_md5(key).ret.s)

FsInit ==
  /\ MemIdle /\ KeyIdle /\ CodecIdle /\ RaceIdle /\ FacIdle
  /\ disk = <<>>
  /\ fsRet = NoFsCall
  /\ lastSet = [k \in FsGoodKeys |-> PyNone]

FsSet(key, value) ==
  LET r == FilesystemCache_set(FilesystemCache_init(Root), disk, key, value)
  IN  /\ disk' = r.files
      /\ fsRet' = [op |-> "set", key |-> key, value |-> value, python |-> FALSE,
                    ret |-> r.ret, raised |-> r.raised]
      /\ IF r.raised = ""
           THEN lastSet' = [k \in DOMAIN lastSet |->
                              IF k = key THEN maybe_pickle(value)
                              ELSE IF lastSet[k] = Tampered /\ FileNameOf(k) = FileNameOf(key)
                                THEN PyNone
                              ELSE lastSet[k]]
           ELSE UNCHANGED lastSet
      /\ UNCHANGED <<memVars, keyVars, codecVars, raceVars, facVars>>

FsGet(key, python) ==
  LET r == FilesystemCache_get(FilesystemCache_init(Root), disk, key, python)
  IN  /\ disk' = r.files
      /\ fsRet' = [op |-> "get", key |-> key, value |-> PyNone, python |-> python,
                    ret |-> r.ret, raised |-> r.raised]
      /\ UNCHANGED <<lastSet, memVars, keyVars, codecVars, raceVars, facVars>>

\* someone else removes a file of the root
ExternalDelete(filename) ==
  /\ filename \in DOMAIN disk
  /\ disk' = [f \in DOMAIN disk \ {filename} |-> disk[f]]
  /\ fsRet' = NoFsCall
  /\ lastSet' = [k \in DOMAIN lastSet |-> IF FileNameOf(k) = filename THEN PyNone ELSE lastSet[k]]
  /\ UNCHANGED <<memVars, keyVars, codecVars, raceVars, facVars>>

\* a file of the root loses its tail: only its first n bytes are left
ExternalTruncate(filename, n) ==
  /\ filename \in DOMAIN disk
  /\ n < Len(disk[filename])
  /\ disk' = [disk EXCEPT ![filename] = SubSeq(@, 1, n)]
  /\ fsRet' = NoFsCall
  /\ lastSet' = [k \in DOMAIN lastSet |->
                   IF FileNameOf(k) = filename /\ lastSet[k] # PyNone THEN Tampered ELSE lastSet[k]]
  /\ UNCHANGED <<memVars, keyVars, codecVars, raceVars, facVars>>

FsNext ==
  \/ \E key \in FsKeys, value \in FsValues : FsSet(key, value)
  \/ \E key \in FsKeys, python \in BOOLEAN : FsGet(key, python)
  \/ \E filename \in DOMAIN disk : ExternalDelete(filename)
  \/ \E filename \in DOMAIN disk : \E n \in 0..Len(disk[filename]) : ExternalTruncate(filename, n)

SpecFile == FsInit /\ [][FsNext]_vars

(***************************************************************************)
(* Claims about the file store                                             *)
(***************************************************************************)
TheCache == FilesystemCache_init(Root)

\* C4 as stated: without decoding, get(key) is the payload of the most recent
\* set on that key if its file was not deleted since, and absent if the key
\* was never set or its file was deleted (files damaged from outside are left
\* out of the claim).
C4_GetReturnsLastSetOfKey ==
  \A k \in FsGoodKeys :
    lastSet[k] # Tampered =>
      FilesystemCache_get(TheCache, disk, k, FALSE) = [files |-> disk, ret |-> lastSet[k], raised |-> ""]

\* C5: a get that follows a set of a non-string value v on the same key
\* returns v when python is set, and otherwise the bytes of the file, which
\* are the pickle of v and not v.
C5_DecodedAndRawGet ==
  [][ (/\ fsRet.op = "set" /\ fsRet.raised = "" /\ fsRet.value.t # "str"
       /\ fsRet'.op = "get" /\ fsRet'.key = fsRet.key)
      => /\ fsRet'.raised = ""
         /\ IF fsRet'.python
              THEN fsRet'.ret = fsRet.value
              ELSE /\ fsRet'.ret = PyStr(disk[FileNameOf(fsRet.key)])
                   /\ fsRet'.ret = pickle_dumps(fsRet.value)
                   /\ fsRet'.ret # fsRet.value ]_vars

\* 42 was set and read back decoded
C5_Witness ==
  /\ fsRet.op = "get" /\ fsRet.python
  /\ fsRet.key \in FsGoodKeys
  /\ lastSet[fsRet.key] = pickle_dumps(PyInt(42))
  /\ fsRet.ret = PyInt(42)

\* the file of a key holds bytes that pickle cannot load
Undecodable(files, key) ==
  /\ make_md5(key).raised = ""
  /\ FileNameOf(key) \in DOMAIN files
  /\ pickle_loads(PyStr(files[FileNameOf(key)])).raised # ""

C10_UnsupportedKeyRaises ==
  [][ (fsRet'.op \in {"set", "get"} /\ ~Supported(fsRet'.key))
      => (/\ make_md5(fsRet'.key).raised = "ValueError"
          /\ fsRet'.raised = "ValueError"
          /\ disk' = disk) ]_vars

\* a set whose key ends in a float, after the elements of a key that has a
\* file, raised
C10_Witness ==
  /\ fsRet.op = "set" /\ fsRet.key = FKfloat
  /\ fsRet.raised = "ValueError"
  /\ FileNameOf(FKabc) \in DOMAIN disk

(***************************************************************************)
(* More claims about the memory store                                      *)
(***************************************************************************)
\* the recency sequence with key k upserted and moved to the newest end
Upserted(keys, k) == Append(SelectSeq(keys, LAMBDA x : x # k), k)

\* C14: a set on a store of capacity c >= 0 removes exactly max(0, n - c)
\* entries, n being the length of the recency sequence with the key upserted
\* at its newest end, and they are the oldest ones; with c >= 1 the key just
\* written stays, and a set on a store below capacity evicts nothing.
C14_EvictionIsExact ==
  [][ (memRet'.op = "set" /\ memory.capacity >= 0) =>
        LET k == make_hashable(memRet'.key)
            up == Upserted(memory.keys, k)
            n == Len(up)
            e == Max(0, n - memory.capacity)
            gone == (DOMAIN memory.cache \cup {k}) \ DOMAIN memory'.cache
        IN  /\ memory'.keys = SubSeq(up, e + 1, n)
            /\ gone = {up[i] : i \in 1..e}
            /\ Cardinality(gone) = e
            /\ DOMAIN memory'.cache \subseteq DOMAIN memory.cache \cup {k}
            /\ memory.capacity >= 1 => k \in DOMAIN memory'.cache
            /\ Len(memory.keys) < memory.capacity => (e = 0 /\ gone = {})
    ]_vars

\* a set of a third key on a full store of capacity 2 evicted one entry and
\* kept the key written
C14_Witness ==
  /\ memRet.op = "set"
  /\ memory.capacity = 2
  /\ Len(writeOrder) = 3 /\ Len(memory.keys) = 2
  /\ make_hashable(memRet.key) = memory.keys[2]
  /\ writeOrder[1] \notin DOMAIN memory.cache

C18_KeysMatchMapping ==
  /\ \A i, j \in 1..Len(memory.keys) : memory.keys[i] = memory.keys[j] => i = j
  /\ Range(memory.keys) = DOMAIN memory.cache
  /\ memRet.raised = ""

\* a set on a key the full store already holds
C18_Witness ==
  /\ memRet.op = "set"
  /\ memory.capacity = 2
  /\ Len(memory.keys) = 2
  /\ Len(writeOrder) = 3
  /\ make_hashable(memRet.key) = memory.keys[2]
  /\ memRet.key = PyTuple(<<PyStr(Ca), DictBA>>)

(***************************************************************************)
(* More claims about the file store                                        *)
(***************************************************************************)
\* C16: a set creates or overwrites exactly one file, the one named
\* make_md5(key) directly under the root, and leaves every other file as it
\* was (a set that raises leaves every file as it was); a get creates,
\* modifies and deletes no file; so no get or set removes a file name.
C16_FileStoreFrame ==
  [][ /\ (fsRet'.op = "set" /\ fsRet'.raised = "") =>
           LET filename == FileNameOf(fsRet'.key)
           IN  /\ DOMAIN disk' = DOMAIN disk \cup {filename}
               /\ disk'[filename] = maybe_pickle(fsRet'.value).s
               /\ \A f \in DOMAIN disk \ {filename} : disk'[f] = disk[f]
               /\ filename = Root \o <<"/">> \o make_md5(fsRet'.key).ret.s
      /\ (fsRet'.op = "set" /\ fsRet'.raised # "") => disk' = disk
      /\ fsRet'.op = "get" => disk' = disk
      /\ fsRet'.op \in {"get", "set"} => DOMAIN disk \subseteq DOMAIN disk'
    ]_vars

\* a set has overwritten the file its key shares with an earlier set, next to
\* the untouched file of another key
C16_Witness ==
  /\ fsRet.op = "set" /\ fsRet.raised = ""
  /\ fsRet.key = FKabc /\ fsRet.value = PyTuple(<<>>)
  /\ lastSet[FKa_bc] \notin {PyNone, Tampered}
  /\ Cardinality(DOMAIN disk) = 2
  /\ FileNameOf(FKb1) \in DOMAIN disk
  /\ disk[FileNameOf(FKb1)] = maybe_pickle(PyInt(42)).s

\* C19 as stated: after only set(K1, v) on an empty store, get(K2) is absent
\* for every supported key K2 other than K1.
C19_NoAliasing ==
  [][ (disk = <<>> /\ fsRet'.op = "set" /\ fsRet'.raised = "") =>
        \A k2 \in FsGoodKeys \ {fsRet'.key} :
          FilesystemCache_get(TheCache, disk', k2, FALSE).ret = PyNone
    ]_vars

(***************************************************************************)
(* The file store under a race: one thread inside set and one inside get,  *)
(* each advancing one statement of the method at a time.                   *)
(***************************************************************************)
RaceKeys == { FKabc, FKb1, FKfloat }
RaceValues == { PyStr(Cab), PyInt(42) }

RaceInit ==
  /\ MemIdle /\ KeyIdle /\ CodecIdle /\ FsIdle /\ RaceIdle /\ FacIdle

\* set, first statement: filename = path.join(self.directory, make_md5(key))
SetPath(key, data) ==
  LET m == make_md5(key)
  IN  /\ wr.pc = "idle"
      /\ IF m.raised # ""
           THEN /\ fsRet' = [op |-> "set", key |-> key, value |-> data, python |-> FALSE,
                             ret |-> PyNone, raised |-> m.raised]
                /\ UNCHANGED <<wr, rd>>
           ELSE /\ wr' = [pc |-> "open", key |-> key, data |-> data,
                          filename |-> path_join(TheCache.directory, m.ret.s), pos |-> 0]
                /\ rd' = IF rd.pc # "idle" THEN [rd EXCEPT !.overlap = TRUE] ELSE rd
                /\ UNCHANGED fsRet
      /\ UNCHANGED <<disk, lastSet, committed, memVars, keyVars, codecVars, facVars>>

\* set: f = open(filename, 'wb')
SetOpen ==
  /\ wr.pc = "open"
  /\ disk' = open_wb(disk, wr.filename)
  /\ wr' = [wr EXCEPT !.pc = "write"]
  /\ UNCHANGED <<rd, fsRet, lastSet, committed, memVars, keyVars, codecVars, facVars>>

\* set: f.write(maybe_pickle(data)); the next n bytes of the payload reach
\* the file
SetWrite(n) ==
  LET payload == maybe_pickle(wr.data).s
  IN  /\ wr.pc = "write"
      /\ n \in 1..(Len(payload) - wr.pos)
      /\ disk' = file_write_at(disk, wr.filename, wr.pos, SubSeq(payload, wr.pos + 1, wr.pos + n))
      /\ wr' = [wr EXCEPT !.pos = @ + n]
      /\ UNCHANGED <<rd, fsRet, lastSet, committed, memVars, keyVars, codecVars, facVars>>

\* set: f.close() once the payload is out, and return
SetClose ==
  LET payload == maybe_pickle(wr.data).s
  IN  /\ wr.pc = "write"
      /\ wr.pos = Len(payload)
      /\ wr' = WrIdle
      /\ committed' = [f \in DOMAIN committed \cup {wr.filename} |->
                         IF f = wr.filename THEN payload ELSE committed[f]]
      /\ fsRet' = [op |-> "set", key |-> wr.key, value |-> wr.data, python |-> FALSE,
                   ret |-> PyNone, raised |-> ""]
      /\ UNCHANGED <<rd, disk, lastSet, memVars, keyVars, codecVars, facVars>>

\* get, first statement: filename = path.join(self.directory, make_md5(key))
GetPath(key, python) ==
  LET m == make_md5(key)
  IN  /\ rd.pc = "idle"
      /\ IF m.raised # ""
           THEN /\ fsRet' = [op |-> "get", key |-> key, value |-> PyNone, python |-> python,
                             ret |-> PyNone, raised |-> m.raised]
                /\ UNCHANGED rd
           ELSE /\ rd' = [pc |-> "exists", key |-> key, python |-> python,
                          filename |-> path_join(TheCache.directory, m.ret.s),
                          result |-> <<>>, overlap |-> wr.pc # "idle"]
                /\ UNCHANGED fsRet
      /\ UNCHANGED <<wr, disk, lastSet, committed, memVars, keyVars, codecVars, facVars>>

\* get: if not path.exists(filename): return None
GetExists ==
  /\ rd.pc = "exists"
  /\ IF path_exists(disk, rd.filename)
       THEN /\ rd' = [rd EXCEPT !.pc = "read"]
            /\ UNCHANGED fsRet
       ELSE /\ rd' = [rd EXCEPT !.pc = "idle"]
            /\ fsRet' = [op |-> "get", key |-> rd.key, value |-> PyNone, python |-> rd.python,
                         ret |-> PyNone, raised |-> ""]
  /\ UNCHANGED <<wr, disk, lastSet, committed, memVars, keyVars, codecVars, facVars>>

\* get: f = open(filename, 'rb'); result = f.read(); f.close()
GetRead ==
  /\ rd.pc = "read"
  /\ rd' = [rd EXCEPT !.pc = "decode", !.result = file_read(disk, rd.filename)]
  /\ UNCHANGED <<wr, disk, fsRet, lastSet, committed, memVars, keyVars, codecVars, facVars>>

\* get: return safe_unpickle(result) if python, else result
GetReturn ==
  /\ rd.pc = "decode"
  /\ rd' = [rd EXCEPT !.pc = "idle"]
  /\ fsRet' = [op |-> "get", key |-> rd.key, value |-> PyNone, python |-> rd.python,
               ret |-> IF rd.python THEN safe_unpickle(PyStr(rd.result)).ret
                       ELSE PyStr(rd.result),
               raised |-> ""]
  /\ UNCHANGED <<wr, disk, lastSet, committed, memVars, keyVars, codecVars, facVars>>

RaceNext ==
  \/ \E key \in RaceKeys, data \in RaceValues : SetPath(key, data)
  \/ SetOpen
  \/ \E n \in 1..Len(maybe_pickle(wr.data).s) : SetWrite(n)
  \/ SetClose
  \/ \E key \in RaceKeys, python \in BOOLEAN : GetPath(key, python)
  \/ GetExists
  \/ GetRead
  \/ GetReturn

SpecRace == RaceInit /\ [][RaceNext]_vars

(***************************************************************************)
(* Claims about the race                                                   *)
(***************************************************************************)
IsPrefix(p, q) == Len(p) <= Len(q) /\ p = SubSeq(q, 1, Len(p))

\* what a get of a file holding the bytes raw returns
Returned(raw, python) == IF python THEN safe_unpickle(PyStr(raw)).ret ELSE PyStr(raw)

\* C17: a get during which no set was in progress returns absent for a file
\* no set has written and otherwise the complete payload of the last set on
\* that file (decoded if asked); a get that overlaps a set returns absent or
\* what some prefix, possibly empty, of a payload gives.
C17_OnlyOverlappingGetIsTorn ==
  [][ (rd.pc # "idle" /\ rd'.pc = "idle") =>
        IF ~rd.overlap
          THEN fsRet'.ret = (IF rd.filename \in DOMAIN committed
                               THEN Returned(committed[rd.filename], rd.python)
                               ELSE PyNone)
          ELSE \/ fsRet'.ret = PyNone
               \/ \E v \in RaceValues : \E n \in 0..Len(maybe_pickle(v).s) :
                    fsRet'.ret = Returned(SubSeq(maybe_pickle(v).s, 1, n), rd.python)
    ]_vars

\* a torn read: while a set is writing over a file that held the payload of
\* an earlier set, a get of that file has returned bytes that are neither
\* the earlier payload nor the one being written
C17_Witness ==
  /\ fsRet.op = "get" /\ ~fsRet.python
  /\ rd.pc = "idle" /\ rd.overlap
  /\ wr.pc = "write" /\ wr.filename = rd.filename
  /\ rd.filename \in DOMAIN committed
  /\ fsRet.ret = PyStr(rd.result)
  /\ rd.result # committed[rd.filename]
  /\ rd.result # maybe_pickle(wr.data).s
  /\ IsPrefix(rd.result, maybe_pickle(wr.data).s)

(***************************************************************************)
(* get_cache and the equality of caches.  A cache object is an entry of    *)
(* heap, a value referring to it is PyRef(its index), and a class is       *)
(* PyClass(its name).                                                      *)
(***************************************************************************)
PyClass(name) == PyObj("class", 0, <<name>>, <<>>, {})
PyRef(i) == PyObj("ref", i, <<>>, <<>>, {})

\* bool(obj): the classes of this module define neither __nonzero__ nor
\* __len__, so their instances are true
py_bool(obj) ==
  IF obj.t = "none" THEN FALSE
  ELSE IF obj.t \in {"bool", "int"} THEN obj.n # 0
  ELSE IF obj.t = "str" THEN Len(obj.s) > 0
  ELSE IF obj.t \in {"tuple", "list", "dict"} THEN Len(obj.items) > 0
  ELSE TRUE

\* a == b of values without an __eq__ of their own: numbers by value (a bool
\* is a number), objects by identity, the rest by type and content
builtin_eq(a, b) ==
  IF a.t \in {"bool", "int"} /\ b.t \in {"bool", "int"} THEN a.n = b.n
  ELSE a = b

\* the object defines __eq__
has_eq(objects, obj) ==
  obj.t = "ref" /\ objects[obj.n].cls \in {"MemoryCache", "FilesystemCache"}

RECURSIVE py_eq(_, _, _)
RECURSIVE MemoryCache_eq(_, _, _)
RECURSIVE FilesystemCache_eq(_, _, _)

\* MemoryCache.__eq__
MemoryCache_eq(objects, self, other) ==
  \/ py_eq(objects, PyBool(0), other)
  \/ py_eq(objects, PyNone, other)
  \/ self = other

\* FilesystemCache.__eq__
FilesystemCache_eq(objects, self, other) ==
  \/ py_eq(objects, PyBool(1), other)
  \/ py_eq(objects, objects[self.n].self.directory, other)
  \/ self = other

\* a == b: the __eq__ of a if it has one, else the __eq__ of b with the
\* operands swapped, else the comparison of the built-in types
py_eq(objects, a, b) ==
  IF has_eq(objects, a)
    THEN IF objects[a.n].cls = "MemoryCache" THEN MemoryCache_eq(objects, a, b)
         ELSE FilesystemCache_eq(objects, a, b)
  ELSE IF has_eq(objects, b)
    THEN IF objects[b.n].cls = "MemoryCache" THEN MemoryCache_eq(objects, b, a)
         ELSE FilesystemCache_eq(objects, b, a)
  ELSE builtin_eq(a, b)

\* BaseCache() has nothing to initialise
BaseCache_init == [capacity |-> PyNone, directory |-> PyNone]

\* option(): a call of the class without arguments; MemoryCache.__init__
\* needs capacity and FilesystemCache.__init__ needs directory
instantiate(objects, name) ==
  IF name \in {"MemoryCache", "FilesystemCache"}
    THEN [heap |-> objects, ret |-> PyNone, raised |-> "TypeError"]
    ELSE [heap |-> Append(objects, [cls |-> name, self |-> BaseCache_init]),
          ret |-> PyRef(Len(objects) + 1), raised |-> ""]

\* isinstance(option, type) and issubclass(option, BaseCache)
is_cache_class(option) ==
  option.t = "class" /\ option.s[1] \in {"BaseCache", "MemoryCache", "FilesystemCache"}

\* os.makedirs(directory): the directory and the ones above it
makedirs(existing, envdir, directory) == existing \cup {envdir, directory}

DefaultName == <<".webassets-cache">>

get_cache(option, env, objects, existing) ==
  IF ~py_bool(option)
    THEN [heap |-> objects, dirs |-> existing, ret |-> PyNone, raised |-> ""]
  ELSE IF option.t = "ref"
    THEN [heap |-> objects, dirs |-> existing, ret |-> option, raised |-> ""]
  ELSE IF is_cache_class(option)
    THEN LET r == instantiate(objects, option.s[1])
         IN  [heap |-> r.heap, dirs |-> existing, ret |-> r.ret, raised |-> r.raised]
  ELSE LET default == path_join(env.directory, DefaultName)
           directory == IF option = PyBool(1) THEN PyStr(default) ELSE option
           made == IF option = PyBool(1) /\ default \notin existing
                     THEN makedirs(existing, env.directory, default) ELSE existing
       IN  [heap |-> Append(objects, [cls |-> "FilesystemCache",
                                      self |-> FilesystemCache_init(directory)]),
            dirs |-> made, ret |-> PyRef(Len(objects) + 1), raised |-> ""]

(***************************************************************************)
(* The factory as a state machine: caches made by their constructors and   *)
(* by get_cache, and compared with options and with each other.            *)
(***************************************************************************)
MaxObjects == 2

Env == [directory |-> Root]
DirA == <<"a">>
DirB == <<"b">>

\* the options that are not cache objects: disabled ones, True, classes,
\* directories, and the number 1
PlainOptions ==
  { PyBool(0), PyNone, PyInt(0), PyStr(<<>>), PyBool(1), PyInt(1),
    PyStr(DirA), PyStr(DirB),
    PyClass("BaseCache"), PyClass("MemoryCache"), PyClass("FilesystemCache") }

Refs == { PyRef(i) : i \in 1..Len(heap) }

FacInit ==
  /\ MemIdle /\ KeyIdle /\ CodecIdle /\ FsIdle /\ RaceIdle
  /\ heap = <<>>
  /\ dirs \in {{}, {Root}}
  /\ facRet = NoFacCall

\* MemoryCache(capacity)
NewMemoryCache(capacity) ==
  /\ Len(heap) < MaxObjects
  /\ heap' = Append(heap, [cls |-> "MemoryCache", self |-> MemoryCache_init(capacity)])
  /\ facRet' = [op |-> "new", option |-> PyInt(capacity), other |-> PyNone,
                ret |-> PyRef(Len(heap) + 1), raised |-> ""]
  /\ UNCHANGED <<dirs, memVars, keyVars, codecVars, fsVars, raceVars>>

\* FilesystemCache(directory)
NewFilesystemCache(directory) ==
  /\ Len(heap) < MaxObjects
  /\ heap' = Append(heap, [cls |-> "FilesystemCache", self |-> FilesystemCache_init(directory)])
  /\ facRet' = [op |-> "new", option |-> directory, other |-> PyNone,
                ret |-> PyRef(Len(heap) + 1), raised |-> ""]
  /\ UNCHANGED <<dirs, memVars, keyVars, codecVars, fsVars, raceVars>>

GetCache(option) ==
  LET r == get_cache(option, Env, heap, dirs)
  IN  /\ Len(r.heap) <= MaxObjects
      /\ heap' = r.heap
      /\ dirs' = r.dirs
      /\ facRet' = [op |-> "get_cache", option |-> option, other |-> PyNone,
                    ret |-> r.ret, raised |-> r.raised]
      /\ UNCHANGED <<memVars, keyVars, codecVars, fsVars, raceVars>>

\* a == b with a cache on the left
Compare(a, b) ==
  /\ facRet' = [op |-> "eq", option |-> a, other |-> b,
                ret |-> PyBool(IF py_eq(heap, a, b) THEN 1 ELSE 0), raised |-> ""]
  /\ UNCHANGED <<heap, dirs, memVars, keyVars, codecVars, fsVars, raceVars>>

FacNext ==
  \/ \E capacity \in 1..MaxCapacity : NewMemoryCache(capacity)
  \/ \E directory \in {PyStr(DirA), PyStr(DirB)} : NewFilesystemCache(directory)
  \/ \E option \in PlainOptions \cup Refs : GetCache(option)
  \/ \E a \in Refs, b \in PlainOptions \cup Refs : Compare(a, b)

SpecFactory == FacInit /\ [][FacNext]_vars

(***************************************************************************)
(* Claims about get_cache and equality                                     *)
(***************************************************************************)
\* the value refers to a cache object of class cls made by this step
MadeNow(r, cls) ==
  /\ r = PyRef(Len(heap) + 1)
  /\ heap' = Append(heap, heap'[Len(heap) + 1])
  /\ heap'[r.n].cls = cls

\* C11 as stated: get_cache resolves every option without raising: a falsy
\* option to None; a cache object to that same object; a cache class to a
\* new object of that class; True to a new FilesystemCache on the default
\* subdirectory of env.directory, which exists after the call; any other
\* value to a new FilesystemCache whose directory is that value.
C11_GetCacheResolvesEveryOption ==
  [][ facRet'.op = "get_cache" =>
        LET o == facRet'.option
            r == facRet'.ret
        IN  /\ facRet'.raised = ""
            /\ IF ~py_bool(o) THEN r = PyNone /\ heap' = heap
               ELSE IF o.t = "ref" THEN r = o /\ heap' = heap
               ELSE IF o.t = "class" THEN MadeNow(r, o.s[1])
               ELSE IF o = PyBool(1)
                 THEN /\ MadeNow(r, "FilesystemCache")
                      /\ heap'[r.n].self.directory = PyStr(path_join(Env.directory, DefaultName))
                      /\ path_join(Env.directory, DefaultName) \in dirs'
               ELSE /\ MadeNow(r, "FilesystemCache")
                    /\ heap'[r.n].self.directory = o
    ]_vars

\* C12 as stated: a MemoryCache m equals x only if x is False or None (or
\* the number 0, which Python takes for False) or x is m itself.
C12_MemoryCacheEquality ==
  [][ (/\ facRet'.op = "eq"
       /\ heap[facRet'.option.n].cls = "MemoryCache"
       /\ facRet'.ret = PyBool(1))
      => \/ facRet'.other \in {PyBool(0), PyNone, PyInt(0)}
         \/ facRet'.other = facRet'.option
    ]_vars

\* C13 as stated: a FilesystemCache f equals x only if x is True (or the
\* number 1, which Python takes for True), x is the directory of f, x is f
\* itself, or x is a FilesystemCache on the directory of f.
C13_FilesystemCacheEquality ==
  [][ (/\ facRet'.op = "eq"
       /\ heap[facRet'.option.n].cls = "FilesystemCache"
       /\ facRet'.ret = PyBool(1))
      => LET f == heap[facRet'.option.n].self
             x == facRet'.other
         IN  \/ x \in {PyBool(1), PyInt(1)}
             \/ x = f.directory
             \/ x = facRet'.option
             \/ /\ x.t = "ref"
                /\ heap[x.n].cls = "FilesystemCache"
                /\ heap[x.n].self.directory = f.directory
    ]_vars

=============================================================================
